---- MODULE Spec2Model ----
(***************************************************************************)
(* Model of src/app.py: a Flask application with two handlers,             *)
(* view_photos (GET /) and upload_photos (POST /upload-photos), over two   *)
(* storage backends (a blob container and a file share).                   *)
(*                                                                         *)
(* Each handler runs on a worker; a worker's position in the handler is    *)
(* pc[w].  Calls into the storage SDK are the atomic steps; each of them   *)
(* either returns or raises, chosen by the environment.                    *)
(***************************************************************************)
EXTENDS Integers, Sequences, FiniteSets, TLC

\* ---------------------------------------------------------------- bounds
MaxFiles == 2        \* files in one multipart request
MaxRequests == 2     \* requests served in one behaviour
MaxClock == 1        \* clock ticks (hours) in one behaviour

\* ------------------------------------------------------------- constants
Day == 24            \* timedelta(days=1), in hours

Workers == {"w1", "w2"}
Main == "w1"                          \* the worker of the synchronous server
Names == {"a", "b"}                   \* non-empty filenames
DirNames == {"d"}                     \* directories that may exist in the share
Payloads == {[content |-> "png-bytes", content_type |-> "image/png"],
             [content |-> "jpg-bytes", content_type |-> "image/jpeg"]}
NameOrder == <<"a", "b", "d">>        \* the backends list entries by name

VARIABLES
    blobStore,   \* objects of the blob container "photos"
    shareStore,  \* files of the file share
    shareDirs,   \* directories of the file share
    now,         \* datetime.utcnow(), in hours
    served,      \* requests accepted so far
    handler,     \* per worker: the view function the request was routed to
    pc,          \* per worker: position in the handler
    req,         \* per worker: request.files of the request being handled
    idx,         \* per worker: index of the file the upload loop is at
    iter,        \* per worker: what remains of the listing being iterated
    img_html,    \* per worker: the gallery entries built so far
    resp,        \* per worker: the HTTP response
    out,         \* per worker: what the handler printed (its error log)
    log,         \* per worker: history of the write calls of this request
    listed,      \* per worker: history of the names the listings returned
    mustList,    \* per worker: names fully uploaded before this GET began
    uploaded,    \* history: names some upload wrote to both backends
    last         \* history: per name, the most recent upload of that name

vars == <<blobStore, shareStore, shareDirs, now, served, handler, pc, req, idx, iter,
          img_html, resp, out, log, listed, mustList, uploaded, last>>

store == <<blobStore, shareStore, shareDirs>>
hist == <<uploaded, last>>

\* ------------------------------------------------------------ data types
\* the entries a request may carry; the bytes of an unnamed entry are never read
FileStorage ==
    {[filename |-> "", content |-> "", content_type |-> "application/octet-stream"]} \cup
    {[filename |-> n, content |-> p.content, content_type |-> p.content_type] :
        n \in Names, p \in Payloads}

RECURSIVE SeqsUpTo(_, _)
SeqsUpTo(S, n) ==
    IF n = 0 THEN {<<>>}
    ELSE LET shorter == SeqsUpTo(S, n - 1)
         IN  shorter \cup {Append(s, x) : s \in {t \in shorter : Len(t) = n - 1}, x \in S}

\* request.files: either no "photos" key, or the key with one or more entries
Requests ==
    {[has_photos |-> FALSE, files |-> <<>>]} \cup
    {[has_photos |-> TRUE, files |-> fs] : fs \in SeqsUpTo(FileStorage, MaxFiles) \ {<<>>}}

SingleFileRequests == {r \in Requests : r.files # <<>> /\ Tail(r.files) = <<>>}

NoRequest == [has_photos |-> FALSE, files |-> <<>>]
NoResponse == [status |-> 0, location |-> "", body |-> <<>>]
NoUpload == [content |-> "", content_type |-> "", ok |-> FALSE]
NoListing == [blob |-> {}, file |-> {}]

Object(f) == [name |-> f.filename, content |-> f.content,
              content_type |-> f.content_type]

NamesOf(s) == {o.name : o \in s}

\* ---------------------------------------------------------- upload_photos
\* redirect("/")
Redirect == [status |-> 302, location |-> "/", body |-> <<>>]

\* an exception nobody catches: Flask answers 500
ServerError == [status |-> 500, location |-> "", body |-> <<>>]

\* if file.filename == "": continue
SkipNoFile(file) == FALSE
SkipFile(file) == file.filename = ""

\* upload_blob(..., overwrite=True): the object of that name is replaced
UploadBlobKeep(s, f) == s \cup {Object(f)}
UploadBlob(s, f) == {o \in s : o.name # f.filename} \cup {Object(f)}

\* file_client.upload_file(...): the file of that name is (re)created
UploadFileKeep(s, f) == s \cup {Object(f)}
UploadFile(s, f) == {o \in s : o.name # f.filename} \cup {Object(f)}

\* where control goes when upload_blob returns (ok) or raises: both writes
\* sit in one try block, so a raise leaves the block for the handler
AfterBlobSeparateTry(ok) == "upload_share"
AfterBlob(ok) == IF ok THEN "upload_share" ELSE "except"

\* except Exception: print, then the for loop goes on with the next file
\* (n is the number of files of the request, i the index of the failed one)
ExceptBreak(n, i) == [pc |-> "upload_loop", idx |-> n + 1, resp |-> NoResponse]
ExceptPropagate(n, i) == [pc |-> "done", idx |-> i, resp |-> ServerError]
ExceptHandler(n, i) == [pc |-> "upload_loop", idx |-> i + 1, resp |-> NoResponse]

\* --------------------------------------------------------------- view_photos
\* generate_blob_sas(..., permission=BlobSasPermissions(read=True),
\*                   expiry=datetime.utcnow() + timedelta(days=1))
GenerateSasNoDelta(backend, name, t) ==
    [backend |-> backend, name |-> name, permission |-> {"read"},
     expiry |-> t, at |-> t]
GenerateSas(backend, name, t) ==
    [backend |-> backend, name |-> name, permission |-> {"read"},
     expiry |-> t + Day, at |-> t]

\* the listing of a set of entries, in the backend's order
Listing(entries) ==
    LET Pick(n) == CHOOSE e \in entries : e.name = n
    IN  [k \in 1..Len(SelectSeq(NameOrder, LAMBDA n : \E e \in entries : e.name = n))
            |-> Pick(SelectSeq(NameOrder, LAMBDA n : \E e \in entries : e.name = n)[k])]

\* container_client.list_blobs()
ListBlobs == Listing({[name |-> o.name, is_directory |-> FALSE] : o \in blobStore})

\* file_share_client.list_directories_and_files()
ListDirectoriesAndFiles ==
    Listing({[name |-> o.name, is_directory |-> FALSE] : o \in shareStore}
            \cup {[name |-> d, is_directory |-> TRUE] : d \in shareDirs})

\* the page: status 200, the gallery in the body
Page(html) == [status |-> 200, location |-> "", body |-> html]

\* ------------------------------------------------------------------- Init
Init ==
    /\ blobStore = {}
    /\ shareStore = {}
    /\ shareDirs \in SUBSET DirNames
    /\ now = 0
    /\ served = 0
    /\ handler = [w \in Workers |-> ""]
    /\ pc = [w \in Workers |-> "idle"]
    /\ req = [w \in Workers |-> NoRequest]
    /\ idx = [w \in Workers |-> 0]
    /\ iter = [w \in Workers |-> <<>>]
    /\ img_html = [w \in Workers |-> <<>>]
    /\ resp = [w \in Workers |-> NoResponse]
    /\ out = [w \in Workers |-> {}]
    /\ log = [w \in Workers |-> <<>>]
    /\ listed = [w \in Workers |-> NoListing]
    /\ mustList = [w \in Workers |-> {}]
    /\ uploaded = {}
    /\ last = [n \in Names |-> NoUpload]

\* ---------------------------------------------------------------- actions
\* the clock advances
Tick ==
    /\ now < MaxClock
    /\ now' = now + 1
    /\ UNCHANGED <<store, served, handler, pc, req, idx, iter, img_html, resp, out, log,
                   listed, mustList, hist>>

\* POST /upload-photos arrives with a request of R; without a "photos" field:
\* redirect at once
UploadBegin(w, R) ==
    /\ pc[w] = "idle"
    /\ served < MaxRequests
    /\ served' = served + 1
    /\ handler' = [handler EXCEPT ![w] = "upload_photos"]
    /\ \E r \in R :
        /\ req' = [req EXCEPT ![w] = r]
        /\ IF ~r.has_photos
           THEN /\ pc' = [pc EXCEPT ![w] = "done"]
                /\ resp' = [resp EXCEPT ![w] = Redirect]
                /\ idx' = idx
           ELSE /\ pc' = [pc EXCEPT ![w] = "upload_loop"]
                /\ resp' = resp
                /\ idx' = [idx EXCEPT ![w] = 1]
    /\ UNCHANGED <<store, now, iter, img_html, out, log, listed, mustList, hist>>

\* for file in ...: an entry with an empty filename is skipped
UploadSkip(w) ==
    /\ pc[w] = "upload_loop"
    /\ idx[w] <= Len(req[w].files)
    /\ SkipFile(req[w].files[idx[w]])
    /\ idx' = [idx EXCEPT ![w] = idx[w] + 1]
    /\ UNCHANGED <<store, now, served, handler, pc, req, iter, img_html, resp, out, log,
                   listed, mustList, hist>>

\* blob_client.upload_blob(file.read(), overwrite=True, ...): returns or raises
UploadBlobWrite(w) ==
    /\ pc[w] = "upload_loop"
    /\ idx[w] <= Len(req[w].files)
    /\ ~SkipFile(req[w].files[idx[w]])
    /\ LET f == req[w].files[idx[w]] IN
       \E ok \in BOOLEAN :
        /\ blobStore' = IF ok THEN UploadBlob(blobStore, f) ELSE blobStore
        /\ log' = [log EXCEPT ![w] = Append(@, [i |-> idx[w], backend |-> "blob", ok |-> ok])]
        /\ last' = [last EXCEPT ![f.filename] =
                        [content |-> f.content, content_type |-> f.content_type, ok |-> FALSE]]
        /\ pc' = [pc EXCEPT ![w] = AfterBlob(ok)]
    /\ UNCHANGED <<shareStore, shareDirs, now, served, handler, req, idx, iter, img_html,
                   resp, out, listed, mustList, uploaded>>

\* file.seek(0); file_client.upload_file(file, ...): returns or raises
UploadShareWrite(w) ==
    /\ pc[w] = "upload_share"
    /\ LET f == req[w].files[idx[w]] IN
       \E ok \in BOOLEAN :
        /\ shareStore' = IF ok THEN UploadFile(shareStore, f) ELSE shareStore
        /\ log' = [log EXCEPT ![w] = Append(@, [i |-> idx[w], backend |-> "file", ok |-> ok])]
        /\ IF ok
           THEN /\ pc' = [pc EXCEPT ![w] = "upload_loop"]
                /\ idx' = [idx EXCEPT ![w] = idx[w] + 1]
                /\ uploaded' = IF log[w][Len(log[w])].ok
                               THEN uploaded \cup {f.filename} ELSE uploaded
                /\ last' = IF log[w][Len(log[w])].ok
                           THEN [last EXCEPT ![f.filename].ok = TRUE] ELSE last
           ELSE /\ pc' = [pc EXCEPT ![w] = "except"]
                /\ UNCHANGED <<idx, hist>>
    /\ UNCHANGED <<blobStore, shareDirs, now, served, handler, req, iter, img_html, resp,
                   out, listed, mustList>>

\* except Exception as e: print(f"Upload failed: ...")
UploadExcept(w) ==
    /\ pc[w] = "except"
    /\ LET h == ExceptHandler(Len(req[w].files), idx[w]) IN
        /\ pc' = [pc EXCEPT ![w] = h.pc]
        /\ idx' = [idx EXCEPT ![w] = h.idx]
        /\ resp' = [resp EXCEPT ![w] = h.resp]
    /\ out' = [out EXCEPT ![w] = @ \cup {<<"upload", req[w].files[idx[w]].filename>>}]
    /\ UNCHANGED <<store, now, served, handler, req, iter, img_html, log, listed, mustList, hist>>

\* the loop is over: return redirect("/")
UploadReturn(w) ==
    /\ pc[w] = "upload_loop"
    /\ idx[w] > Len(req[w].files)
    /\ pc' = [pc EXCEPT ![w] = "done"]
    /\ resp' = [resp EXCEPT ![w] = Redirect]
    /\ UNCHANGED <<store, now, served, handler, req, idx, iter, img_html, out, log, listed,
                   mustList, hist>>

\* GET / arrives: the two lazy listings are created, nothing is fetched yet
ViewBegin(w) ==
    /\ pc[w] = "idle"
    /\ served < MaxRequests
    /\ served' = served + 1
    /\ handler' = [handler EXCEPT ![w] = "view_photos"]
    /\ pc' = [pc EXCEPT ![w] = "view_blobs"]
    /\ mustList' = [mustList EXCEPT ![w] = uploaded]
    /\ UNCHANGED <<store, now, req, idx, iter, img_html, resp, out, log, listed, hist>>

\* for blob in blobs: the enumeration is fetched, or raises outside any try
ViewListBlobs(w) ==
    /\ pc[w] = "view_blobs"
    /\ \E ok \in BOOLEAN :
        IF ok
        THEN /\ iter' = [iter EXCEPT ![w] = ListBlobs]
             /\ listed' = [listed EXCEPT ![w].blob = NamesOf(blobStore)]
             /\ pc' = [pc EXCEPT ![w] = "view_blob_loop"]
             /\ resp' = resp
        ELSE /\ pc' = [pc EXCEPT ![w] = "done"]
             /\ resp' = [resp EXCEPT ![w] = ServerError]
             /\ UNCHANGED <<iter, listed>>
    /\ UNCHANGED <<store, now, served, handler, req, idx, img_html, out, log, mustList, hist>>

\* one blob: sign it and add its <img>, or print the error and go on
ViewSignBlob(w) ==
    /\ pc[w] = "view_blob_loop"
    /\ iter[w] # <<>>
    /\ LET blob == Head(iter[w]) IN
       \E ok \in BOOLEAN :
        /\ img_html' = IF ok THEN [img_html EXCEPT ![w] = Append(@, GenerateSas("blob", blob.name, now))]
                       ELSE img_html
        /\ out' = IF ok THEN out ELSE [out EXCEPT ![w] = @ \cup {<<"blob", blob.name>>}]
    /\ iter' = [iter EXCEPT ![w] = Tail(@)]
    /\ UNCHANGED <<store, now, served, handler, pc, req, idx, resp, log, listed, mustList, hist>>

\* for file in files: the enumeration is fetched, or raises outside any try
ViewListFiles(w) ==
    /\ pc[w] = "view_blob_loop"
    /\ iter[w] = <<>>
    /\ \E ok \in BOOLEAN :
        IF ok
        THEN /\ iter' = [iter EXCEPT ![w] = ListDirectoriesAndFiles]
             /\ listed' = [listed EXCEPT ![w].file = NamesOf(shareStore)]
             /\ pc' = [pc EXCEPT ![w] = "view_file_loop"]
             /\ resp' = resp
        ELSE /\ pc' = [pc EXCEPT ![w] = "done"]
             /\ resp' = [resp EXCEPT ![w] = ServerError]
             /\ UNCHANGED <<iter, listed>>
    /\ UNCHANGED <<store, now, served, handler, req, idx, img_html, out, log, mustList, hist>>

\* if not file.is_directory: a directory gets no entry
ViewSkipDirectory(w) ==
    /\ pc[w] = "view_file_loop"
    /\ iter[w] # <<>>
    /\ Head(iter[w]).is_directory
    /\ iter' = [iter EXCEPT ![w] = Tail(@)]
    /\ UNCHANGED <<store, now, served, handler, pc, req, idx, img_html, resp, out, log,
                   listed, mustList, hist>>

\* one file: sign it and add its <img>, or print the error and go on
\* (the call is generate_blob_sas with share_name and file_path; whether it
\* returns a token or raises is the SDK's answer, so both are possible here)
ViewSignFile(w) ==
    /\ pc[w] = "view_file_loop"
    /\ iter[w] # <<>>
    /\ ~Head(iter[w]).is_directory
    /\ LET file == Head(iter[w]) IN
       \E ok \in BOOLEAN :
        /\ img_html' = IF ok THEN [img_html EXCEPT ![w] = Append(@, GenerateSas("file", file.name, now))]
                       ELSE img_html
        /\ out' = IF ok THEN out ELSE [out EXCEPT ![w] = @ \cup {<<"file", file.name>>}]
    /\ iter' = [iter EXCEPT ![w] = Tail(@)]
    /\ UNCHANGED <<store, now, served, handler, pc, req, idx, resp, log, listed, mustList, hist>>

\* return the page
ViewReturn(w) ==
    /\ pc[w] = "view_file_loop"
    /\ iter[w] = <<>>
    /\ pc' = [pc EXCEPT ![w] = "done"]
    /\ resp' = [resp EXCEPT ![w] = Page(img_html[w])]
    /\ UNCHANGED <<store, now, served, handler, req, idx, iter, img_html, out, log, listed,
                   mustList, hist>>

\* the response is sent; the worker is free again
Complete(w) ==
    /\ pc[w] = "done"
    /\ pc' = [pc EXCEPT ![w] = "idle"]
    /\ handler' = [handler EXCEPT ![w] = ""]
    /\ req' = [req EXCEPT ![w] = NoRequest]
    /\ idx' = [idx EXCEPT ![w] = 0]
    /\ iter' = [iter EXCEPT ![w] = <<>>]
    /\ img_html' = [img_html EXCEPT ![w] = <<>>]
    /\ resp' = [resp EXCEPT ![w] = NoResponse]
    /\ out' = [out EXCEPT ![w] = {}]
    /\ log' = [log EXCEPT ![w] = <<>>]
    /\ listed' = [listed EXCEPT ![w] = NoListing]
    /\ mustList' = [mustList EXCEPT ![w] = {}]
    /\ UNCHANGED <<store, now, served, hist>>

Handle(w) ==
    \/ UploadBegin(w, Requests)
    \/ UploadSkip(w)
    \/ UploadBlobWrite(w)
    \/ UploadShareWrite(w)
    \/ UploadExcept(w)
    \/ UploadReturn(w)
    \/ ViewBegin(w)
    \/ ViewListBlobs(w)
    \/ ViewSignBlob(w)
    \/ ViewListFiles(w)
    \/ ViewSkipDirectory(w)
    \/ ViewSignFile(w)
    \/ ViewReturn(w)
    \/ Complete(w)

\* the synchronous server: one worker, one request at a time
Next ==
    \/ Tick
    \/ Handle(Main)

Spec == Init /\ [][Next]_vars

\* a threaded server: uploads of one file each, handled by several workers at
\* once, their backend calls interleaved in every order
ConcNext ==
    \E w \in Workers :
        \/ UploadBegin(w, SingleFileRequests)
        \/ UploadSkip(w)
        \/ UploadBlobWrite(w)
        \/ UploadShareWrite(w)
        \/ UploadExcept(w)
        \/ UploadReturn(w)
        \/ Complete(w)

ConcSpec == Init /\ [][ConcNext]_vars

TypeOK ==
    /\ now \in 0..MaxClock
    /\ served \in 0..MaxRequests
    /\ \A w \in Workers : req[w] \in Requests
    /\ \A w \in Workers : resp[w].status \in {0, 200, 302, 500}
    /\ \A w \in Workers : handler[w] \in {"", "upload_photos", "view_photos"}

\* ------------------------------------------------------- claim vocabulary
\* the indices of the files of a request that have a non-empty filename
Named(r) == {i \in 1..Len(r.files) : r.files[i].filename # ""}

\* the write calls worker w made for file i on a backend
Attempts(w, i, backend) ==
    {k \in 1..Len(log[w]) : log[w][k].i = i /\ log[w][k].backend = backend}

UploadDone(w) == handler[w] = "upload_photos" /\ pc[w] = "done"
ViewDone(w) == handler[w] = "view_photos" /\ pc[w] = "done"

\* the (backend, name) pairs a response body holds a signed URL for
Shown(body) == {<<body[k].backend, body[k].name>> : k \in 1..Len(body)}

ObjectsNamed(s, n) == {o \in s : o.name = n}

\* ------------------------------------------------------------------ C1
\* C1, as stated: when an upload request is over, every file with a non-empty
\* filename has had its file-share write attempted, whether its blob write
\* succeeded or raised.
C1_ShareAttemptedRegardless ==
    \A w \in Workers :
        UploadDone(w) =>
            \A i \in Named(req[w]) : Attempts(w, i, "file") # {}

\* C1, amended: the file-share write of a file with a non-empty filename is
\* attempted exactly when the blob write of that file succeeded; a blob write
\* that raises skips the file-share write of that file.
C1_ShareAttemptedIffBlobOk ==
    \A w \in Workers :
        UploadDone(w) =>
            \A i \in Named(req[w]) :
                (Attempts(w, i, "file") # {})
                    <=> (\E k \in Attempts(w, i, "blob") : log[w][k].ok)

\* a finished upload with one file whose blob write raised and one whose blob
\* write succeeded
C1_Witness ==
    \E w \in Workers :
        /\ UploadDone(w)
        /\ \E i, j \in Named(req[w]) :
            /\ \E k \in Attempts(w, i, "blob") : ~log[w][k].ok
            /\ Attempts(w, i, "file") = {}
            /\ \E k \in Attempts(w, j, "blob") : log[w][k].ok
            /\ Attempts(w, j, "file") # {}

\* ------------------------------------------------------------------ C2
\* C2: every POST /upload-photos ends with the redirect to "/", whatever the
\* number of files and whichever of their writes succeeded or raised.
C2_UploadAlwaysRedirects ==
    \A w \in Workers : UploadDone(w) => resp[w] = Redirect

\* a finished upload in which one write succeeded and another raised
C2_Witness ==
    \E w \in Workers :
        /\ UploadDone(w)
        /\ resp[w] = Redirect
        /\ \E k, m \in 1..Len(log[w]) : log[w][k].ok /\ ~log[w][m].ok

\* ------------------------------------------------------------------ C3
\* C3: every GET / that begins after a filename F was written to both
\* backends answers with a signed URL for F in the blob backend and one for F
\* in the file share, unless the signing of that object failed.
C3_UploadedAlwaysListed ==
    \A w \in Workers :
        ViewDone(w) =>
            \A F \in mustList[w] :
                /\ <<"blob", F>> \in Shown(resp[w].body) \cup out[w]
                /\ <<"file", F>> \in Shown(resp[w].body) \cup out[w]

\* C3, where both enumerations returned: the uploaded names are all there
C3_ListedWhenEnumerated ==
    \A w \in Workers :
        (ViewDone(w) /\ resp[w].status = 200) =>
            \A F \in mustList[w] :
                /\ <<"blob", F>> \in Shown(resp[w].body) \cup out[w]
                /\ <<"file", F>> \in Shown(resp[w].body) \cup out[w]

\* ------------------------------------------------------------------ C4
\* C4: with requests handled one after the other, for every filename F whose
\* most recent upload had both writes succeed, each backend holds exactly one
\* object named F, with the content and content-type of that upload.
C4_LastWriteWins ==
    \A F \in Names :
        last[F].ok =>
            LET o == [name |-> F, content |-> last[F].content,
                      content_type |-> last[F].content_type]
            IN  /\ ObjectsNamed(blobStore, F) = {o}
                /\ ObjectsNamed(shareStore, F) = {o}

\* one request uploaded the same name twice with different bytes and
\* content-types, all four writes succeeded, and the second upload is the
\* most recent one
C4_Witness ==
    \E w \in Workers :
        /\ handler[w] = "upload_photos"
        /\ Len(req[w].files) = 2
        /\ req[w].files[1].filename = req[w].files[2].filename
        /\ req[w].files[1].filename # ""
        /\ req[w].files[1].content # req[w].files[2].content
        /\ req[w].files[1].content_type # req[w].files[2].content_type
        /\ Len(log[w]) = 4
        /\ \A k \in 1..4 : log[w][k].ok
        /\ last[req[w].files[2].filename].ok

\* ------------------------------------------------------------------ C5
\* C5: every signed URL of a GET / response, blob or file share, carries the
\* read permission only and expires exactly one day after the moment it was
\* generated, which is in the future at that moment.
C5_SasReadOnlyOneDay ==
    \A w \in Workers :
        \A k \in 1..Len(img_html[w]) :
            LET url == img_html[w][k] IN
                /\ url.permission = {"read"}
                /\ url.at <= now
                /\ url.expiry = url.at + Day
                /\ url.expiry > url.at
                /\ ViewDone(w) /\ resp[w].status = 200 => resp[w].body[k] = url

\* a page with a blob URL and a file-share URL generated at different times
C5_Witness ==
    \E w \in Workers :
        /\ ViewDone(w)
        /\ resp[w].status = 200
        /\ \E k, m \in 1..Len(resp[w].body) :
            /\ resp[w].body[k].backend = "blob"
            /\ resp[w].body[m].backend = "file"
            /\ resp[w].body[k].at < resp[w].body[m].at

\* ------------------------------------------------------------------ C6
\* C6: no backend failure reaches the HTTP client as an error: every GET /
\* answers 200 and every POST /upload-photos answers the redirect, also when
\* enumerating the blob container or the file share fails.
C6_NoErrorSurfaced ==
    \A w \in Workers :
        /\ ViewDone(w) => resp[w].status = 200
        /\ UploadDone(w) => resp[w] = Redirect

\* ------------------------------------------------------------------ C7
\* C7: when signing failed for some listed object, the page still renders and
\* holds an entry for exactly the listed blobs and the listed non-directory
\* file-share entries whose signing succeeded.
C7_SignFailureOmitsOnlyThatEntry ==
    \A w \in Workers :
        (ViewDone(w) /\ out[w] # {}) =>
            /\ resp[w].status = 200
            /\ Shown(resp[w].body) =
                (({"blob"} \X listed[w].blob) \cup ({"file"} \X listed[w].file)) \ out[w]

\* C7, where both enumerations returned: exactly the signed entries are shown
C7_OmitsOnlyFailedWhenEnumerated ==
    \A w \in Workers :
        (ViewDone(w) /\ resp[w].status = 200) =>
            Shown(resp[w].body) =
                (({"blob"} \X listed[w].blob) \cup ({"file"} \X listed[w].file)) \ out[w]

\* ------------------------------------------------------------------ C8
\* C8: an upload request without the photos field, or whose entries all have
\* an empty filename, makes no write call, leaves the blob container and the
\* file share as they were, and answers with the redirect to "/".
C8_NoNamedFileNoWrite ==
    /\ [](\A w \in Workers :
            (handler[w] = "upload_photos" /\ Named(req[w]) = {}) =>
                /\ log[w] = <<>>
                /\ pc[w] = "done" => resp[w] = Redirect)
    /\ [][(handler[Main] = "upload_photos" /\ Named(req[Main]) = {})
            => (blobStore' = blobStore /\ shareStore' = shareStore)]_vars

\* a finished upload of two unnamed entries, with objects already stored
C8_Witness ==
    /\ UploadDone(Main)
    /\ req[Main].has_photos
    /\ Len(req[Main].files) = 2
    /\ Named(req[Main]) = {}
    /\ resp[Main] = Redirect
    /\ blobStore # {}
    /\ shareStore # {}

\* ------------------------------------------------------------------ C9
\* C9: within one upload request the write calls are made in the order of the
\* files, the blob write of a file before its file-share write, and a failure
\* never ends the loop: when the request is over every file with a non-empty
\* filename has had its blob write attempted.
C9_SequentialInOrder ==
    \A w \in Workers :
        handler[w] = "upload_photos" =>
            /\ \A k \in 1..Len(log[w]) - 1 :
                \/ log[w][k].i < log[w][k + 1].i
                \/ /\ log[w][k].i = log[w][k + 1].i
                   /\ log[w][k].backend = "blob"
                   /\ log[w][k + 1].backend = "file"
            /\ \A k \in 1..Len(log[w]) : log[w][k].i \in Named(req[w])
            /\ pc[w] = "done" =>
                \A i \in Named(req[w]) : Cardinality(Attempts(w, i, "blob")) = 1

\* a finished upload of two named files: the first one's blob write raised,
\* the second one's writes were made all the same
C9_Witness ==
    \E w \in Workers :
        /\ UploadDone(w)
        /\ Named(req[w]) = {1, 2}
        /\ \E k \in Attempts(w, 1, "blob") : ~log[w][k].ok
        /\ Attempts(w, 2, "blob") # {}
        /\ Attempts(w, 2, "file") # {}

\* ----------------------------------------------------------------- C10
\* C10: from two empty backends, after any interleaving of upload requests
\* with any write failures, every filename of the file share is also a
\* filename of the blob container.
C10_ShareNamesInBlob == NamesOf(shareStore) \subseteq NamesOf(blobStore)

\* two uploads in flight, the share holds a name, and the blob container
\* holds a name the share does not
C10_Witness ==
    /\ \A w \in Workers : handler[w] = "upload_photos" /\ pc[w] # "done"
    /\ NamesOf(shareStore) # {}
    /\ NamesOf(blobStore) \ NamesOf(shareStore) # {}
====
